---- MODULE Spec2Model ----
(***************************************************************************)
(* Model of the protection core of woutermont/smother:                     *)
(*   - backend/src/oidc.rs: authenticate, the decentralized verification   *)
(*     of an access token (claim checks, then the trust branch and the     *)
(*     signature branch joined by try_join!);                              *)
(*   - backend/src/uma/resource_registration.rs over backend/src/storage.rs*)
(*     : the resource registration API on a key-value store;               *)
(*   - backend/src/uma/permission.rs: the permission endpoint, which       *)
(*     stores the requested permissions under a ticket.                    *)
(* The key-value store of storage.rs and catch_errors are also modelled on *)
(* their own, as the operations every handler goes through.                *)
(* The handlers are also modelled under several callers, each holding the  *)
(* `&mut` reference to a store for the time of its call.                   *)
(*                                                                         *)
(* Modelling conventions.                                                  *)
(*   Option<T> is a set with at most one element ({} is None).             *)
(*   A String that the code trims (a URI path, an issuer) is a sequence of *)
(*   symbols, "/" being one symbol; any other symbol is an atomic piece of *)
(*   text without a slash.                                                 *)
(*   aud and issuers are Vec's that the code only searches (iter().any,    *)
(*   contains): they are modelled as the set of their elements.            *)
(*   Every response of the network is an input chosen by the environment.  *)
(***************************************************************************)
EXTENDS Integers, Sequences, FiniteSets, TLC

VARIABLES
    phase,      \* authenticate: "idle", "joining" (inside try_join!) or "done"
    token_str,  \* authenticate: the argument of the running call
    now,        \* authenticate: the clock value read by verify_times
    trust,      \* the future webid_doc: [pc, status, jwks_uri, doc]
    sig,        \* the future jwks (verify_signature): [pc, status, jwks_uri, jwk]
    fetched,    \* the requests issued by the running call (set of URIs)
    published,  \* the WebID document that the token's webid serves during the call
    result,     \* authenticate: "pending", "Ok" or the name of the AuthError
    resources,  \* the ResourceDescriptionStore: a function key -> description
    generated,  \* the ids Uuid::new_v4 has returned so far
    request,    \* the last request handled by the registration API
    response,   \* the response to it
    registered, \* history: id -> description submitted by Create, until the
                \* id is updated or deleted
    tickets,    \* the PermissionTicketStore: a function ticket -> permissions
    issued,     \* the tickets Uuid::new_v4 has returned so far, oldest first
    earlier,    \* history: the token the last accepting call of authenticate
                \* accepted ({} when it is not recorded)
    hashmap,    \* a HashMap<K, V> used through the KeyValueStore trait
    call,       \* the last call on hashmap and what it returned
    written,    \* history: key -> the value of the last set of the key, until
                \* the key is deleted
    built,      \* the http::Result a handler hands to catch_errors
    caught,     \* what catch_errors returned for it ({} before the call)
    tasks,      \* the callers of the protection API: for each its call in
                \* progress, [pc, op, id, yielded, response, expect]
    borrow,     \* per store, the callers holding the &mut reference to it
    serial      \* history: the two stores as the calls leave them when each
                \* runs alone, in the order in which they got their store

avars == <<phase, token_str, now, trust, sig, fetched, published, result, earlier>>
rvars == <<resources, generated, request, response, registered>>
pvars == <<tickets, issued>>
svars == <<hashmap, call, written>>
cvars == <<built, caught>>
tvars == <<tasks, borrow, serial>>
vars == <<phase, token_str, now, trust, sig, fetched, published, result,
          resources, generated, registered, tickets, issued,
          earlier, hashmap, call, written, built, caught,
          tasks, borrow, serial, request, response>>

----------------------------------------------------------------------------
(* Bounds and value sets                                                   *)

\* Unix timestamps range over 0..MaxTime
MaxTime == 2
\* a fetched key set holds at most MaxKeys keys
MaxKeys == 2

Times == 0..MaxTime
AudStrings == {"solid", "client1", "client2"}
Clients == {"client1", "client2"}
Issuers == {<<"iss1">>, <<"iss2", "/">>}
WebIds == {"alice", "bob"}
KeyIds == {"k1", "k2"}
KeyMaterials == {"m1", "m2"}
JwksUris == {"jwks1"}

\* struct AccessToken (sub is never read and is left out); signed_with is the
\* key material the token's signature was made with. The fetched key sets
\* range over every key id and material, so that one key binding and one
\* signing key stand for all of them.
AccessToken ==
    [webid : WebIds, iss : Issuers, aud : SUBSET AudStrings, azp : Clients,
     nbf : {{}} \cup {{t} : t \in Times}, iat : Times, exp : Times,
     cnf : [jkt : {"k1"}], signed_with : {"m1"}]

\* the strings handed to authenticate: one that does not deserialize into an
\* AccessToken, and the serializations of the access tokens
Malformed == [json |-> FALSE]
TokenStrs == {Malformed} \cup {[json |-> TRUE, claims |-> t] : t \in AccessToken}

\* a key of a JWKSet
JWK == [key_id : KeyIds, material : KeyMaterials]

RECURSIVE SeqsUpTo(_, _)
SeqsUpTo(S, n) ==
    IF n = 0 THEN {<<>>}
    ELSE LET shorter == SeqsUpTo(S, n - 1)
         IN  shorter \cup {Append(s, x) : s \in {q \in shorter : Len(q) = n - 1}, x \in S}

JWKSets == SeqsUpTo(JWK, MaxKeys)

\* struct WebidDoc
WebidDoc == [issuers : SUBSET Issuers]

----------------------------------------------------------------------------
(* oidc.rs: the checks made before any request                             *)

\* from_json::<Unverified<Json<AccessToken>>>(&token_str)
FromJson(s) == IF s.json THEN "Ok" ELSE "InvalidToken"

\* oidc.rs 54-55
VerifyAudience(token) ==
    IF ~("solid" \in token.aud) THEN "InvalidAudience"
    ELSE IF ~(token.azp \in token.aud) THEN "InvalidAudience"
    ELSE "Ok"

VerifyTimesNoExp(token, n) ==
    IF token.iat > n THEN "TokenIssuedInFuture"
    ELSE IF \E nbf \in token.nbf : nbf > n THEN "TokenNotYetValid"
    ELSE "Ok"

VerifyTimesStrictExp(token, n) ==
    IF token.iat > n THEN "TokenIssuedInFuture"
    ELSE IF token.exp <= n THEN "TokenExpired"
    ELSE IF \E nbf \in token.nbf : nbf > n THEN "TokenNotYetValid"
    ELSE "Ok"

VerifyTimesExpFirst(token, n) ==
    IF token.exp < n THEN "TokenExpired"
    ELSE IF token.iat > n THEN "TokenIssuedInFuture"
    ELSE IF \E nbf \in token.nbf : nbf > n THEN "TokenNotYetValid"
    ELSE "Ok"

\* verify_times
VerifyTimes(token, n) ==
    IF token.iat > n THEN "TokenIssuedInFuture"
    ELSE IF token.exp < n THEN "TokenExpired"
    ELSE IF \E nbf \in token.nbf : nbf > n THEN "TokenNotYetValid"
    ELSE "Ok"

PreChecksTimesFirst(s, n) ==
    IF FromJson(s) # "Ok" THEN FromJson(s)
    ELSE IF VerifyTimes(s.claims, n) # "Ok" THEN VerifyTimes(s.claims, n)
    ELSE VerifyAudience(s.claims)

\* authenticate, lines 52-57: the first error of parse, audience, times
PreChecks(s, n) ==
    IF FromJson(s) # "Ok" THEN FromJson(s)
    ELSE IF VerifyAudience(s.claims) # "Ok" THEN VerifyAudience(s.claims)
    ELSE VerifyTimes(s.claims, n)

----------------------------------------------------------------------------
(* oidc.rs: the two branches                                               *)

well_known == <<".well-known/openid-configuration">>

RECURSIVE TrimEndMatches(_, _)
TrimEndMatches(s, c) ==
    IF s # <<>> /\ s[Len(s)] = c THEN TrimEndMatches(SubSeq(s, 1, Len(s) - 1), c)
    ELSE s

\* get_issuer_jwks, line 105
CfgUri(issuer) == TrimEndMatches(issuer, "/") \o well_known

\* verify_signature, line 89: the first key whose key_id equals the token's
\* key-binding value (cnf.jkt is the only key reference an AccessToken has)
RECURSIVE Find(_, _)
Find(keys, token) ==
    IF keys = <<>> THEN {}
    ELSE IF keys[1].key_id = token.cnf.jkt THEN {keys[1]}
    ELSE Find(Tail(keys), token)

\* UntrustedToken::validate_signature_with_key
ValidateSignatureWithKey(token, jwk) == jwk.material = token.signed_with

VerifyKeysAnyKey(keys, token) ==
    LET valid == {keys[i] : i \in {j \in 1..Len(keys) :
                                      ValidateSignatureWithKey(token, keys[j])}}
    IN  IF valid = {} THEN [status |-> "ValidationError", jwk |-> {}]
        ELSE [status |-> "Ok", jwk |-> {CHOOSE k \in valid : TRUE}]

\* verify_signature, lines 89-95, on the fetched keys
VerifyKeys(keys, token) ==
    LET found == Find(keys, token)
    IN  IF found = {} THEN [status |-> "NoMatchingJwk", jwk |-> {}]
        ELSE IF \E jwk \in found : ~ValidateSignatureWithKey(token, jwk)
             THEN [status |-> "ValidationError", jwk |-> found]
        ELSE [status |-> "Ok", jwk |-> found]

ContainsIssuerAlways(doc, token) == "Ok"

\* authenticate, line 60
ContainsIssuer(doc, token) ==
    IF token.iss \in doc.issuers THEN "Ok" ELSE "IssuerNotAllowed"

IsErr(status) == status \notin {"pending", "Ok"}

TryJoinFailSlow(t, s) ==
    IF t = "pending" \/ s = "pending" THEN "pending"
    ELSE IF IsErr(t) THEN t
    ELSE IF IsErr(s) THEN s
    ELSE "Ok"

TryJoinEither(t, s) ==
    IF IsErr(t) THEN t
    ELSE IF IsErr(s) THEN s
    ELSE IF t = "Ok" \/ s = "Ok" THEN "Ok"
    ELSE "pending"

TryJoinInOrder(t, s) ==
    IF IsErr(t) THEN t
    ELSE IF t = "pending" THEN "pending"
    ELSE IF IsErr(s) THEN s
    ELSE IF s = "Ok" THEN "Ok"
    ELSE "pending"

TryJoinDropsSigError(t, s) ==
    IF IsErr(t) THEN t
    ELSE IF t = "Ok" /\ s = "Ok" THEN "Ok"
    ELSE "pending"

\* try_join!(webid_doc, jwks): the error of a failed future at once, Ok once
\* both are Ok
TryJoin(t, s) ==
    IF IsErr(t) THEN t
    ELSE IF IsErr(s) THEN s
    ELSE IF t = "Ok" /\ s = "Ok" THEN "Ok"
    ELSE "pending"

IdleTrust == [pc |-> "none", status |-> "pending", jwks_uri |-> {}, doc |-> {}]
IdleSig == [pc |-> "none", status |-> "pending", jwks_uri |-> {}, jwk |-> {}]

StartFetchesEarly(s, n) == s.json

\* authenticate, lines 52-67: the requests of line 59 and 63 are made only
\* once the checks of lines 52-57 have passed
StartFetches(s, n) == PreChecks(s, n) = "Ok"

----------------------------------------------------------------------------
(* oidc.rs: authenticate as a state machine.  The checks of lines 52-57    *)
(* have no suspension point and run in the step that starts the call; each *)
(* send().await and json().await of the two branches is one step, followed *)
(* by the poll of try_join! that observes it.                              *)

WebidRequest(token) == [by |-> "get_webid_doc", uri |-> <<token.webid>>]
IssuerRequest(token) == [by |-> "get_issuer_jwks", uri |-> CfgUri(token.iss)]
JwksRequest(by, uri) == [by |-> by, uri |-> <<uri>>]

\* the poll of try_join! after a step of a branch
Join(t, s) ==
    /\ result' = TryJoin(t.status, s.status)
    /\ phase' = IF TryJoin(t.status, s.status) = "pending" THEN "joining" ELSE "done"

AuthenticateCached(s, n, d) ==
    /\ phase = "idle"
    /\ token_str' = s
    /\ now' = n
    /\ published' = d
    /\ result' = IF s \in earlier THEN "Ok"
                 ELSE IF PreChecks(s, n) = "Ok" THEN "pending" ELSE PreChecks(s, n)
    /\ phase' = IF s \notin earlier /\ PreChecks(s, n) = "Ok" THEN "joining" ELSE "done"
    /\ fetched' = IF s \notin earlier /\ StartFetches(s, n)
                  THEN {WebidRequest(s.claims), IssuerRequest(s.claims)}
                  ELSE {}
    /\ trust' = IF s \notin earlier /\ PreChecks(s, n) = "Ok"
                THEN [IdleTrust EXCEPT !.pc = "send_cfg"]
                ELSE IdleTrust
    /\ sig' = IF s \notin earlier /\ PreChecks(s, n) = "Ok"
              THEN [IdleSig EXCEPT !.pc = "send_cfg"]
              ELSE IdleSig
    /\ UNCHANGED <<earlier, rvars, pvars, svars, cvars, tvars>>

\* authenticate, lines 50-63
Authenticate(s, n, d) ==
    /\ phase = "idle"
    /\ token_str' = s
    /\ now' = n
    /\ published' = d
    /\ result' = IF PreChecks(s, n) = "Ok" THEN "pending" ELSE PreChecks(s, n)
    /\ phase' = IF PreChecks(s, n) = "Ok" THEN "joining" ELSE "done"
    /\ fetched' = IF StartFetches(s, n)
                  THEN {WebidRequest(s.claims), IssuerRequest(s.claims)}
                  ELSE {}
    /\ trust' = IF PreChecks(s, n) = "Ok" THEN [IdleTrust EXCEPT !.pc = "send_cfg"]
                ELSE IdleTrust
    /\ sig' = IF PreChecks(s, n) = "Ok" THEN [IdleSig EXCEPT !.pc = "send_cfg"]
              ELSE IdleSig
    /\ UNCHANGED <<earlier, rvars, pvars, svars, cvars, tvars>>

Running(branch, pc) ==
    phase = "joining" /\ branch.status = "pending" /\ branch.pc = pc

\* get_webid_doc, line 124: send().map_err(NoIssuerConfig).await
TrustSendCfg(ok) ==
    /\ Running(trust, "send_cfg")
    /\ trust' = IF ok THEN [trust EXCEPT !.pc = "json_cfg"]
                ELSE [trust EXCEPT !.pc = "done", !.status = "NoIssuerConfig"]
    /\ Join(trust', sig)
    /\ UNCHANGED <<token_str, now, sig, fetched, published>>
    /\ UNCHANGED <<earlier, rvars, pvars, svars, cvars, tvars>>

\* get_webid_doc, lines 125-127: json().map_err(InvalidIssuerConfig).await,
\* then the request to the jwks_uri of the parsed document
TrustJsonCfg(parsed) ==
    /\ Running(trust, "json_cfg")
    /\ trust' = IF parsed = {}
                THEN [trust EXCEPT !.pc = "done", !.status = "InvalidIssuerConfig"]
                ELSE [trust EXCEPT !.pc = "send_jwks", !.jwks_uri = parsed]
    /\ fetched' = fetched \cup {JwksRequest("get_webid_doc", u) : u \in parsed}
    /\ Join(trust', sig)
    /\ UNCHANGED <<token_str, now, sig, published>>
    /\ UNCHANGED <<earlier, rvars, pvars, svars, cvars, tvars>>

\* get_webid_doc, line 128: send().map_err(NoJwks).await
TrustSendJwks(ok) ==
    /\ Running(trust, "send_jwks")
    /\ trust' = IF ok THEN [trust EXCEPT !.pc = "json_jwks"]
                ELSE [trust EXCEPT !.pc = "done", !.status = "NoJwks"]
    /\ Join(trust', sig)
    /\ UNCHANGED <<token_str, now, sig, fetched, published>>
    /\ UNCHANGED <<earlier, rvars, pvars, svars, cvars, tvars>>

\* get_webid_doc, lines 129-131, and the closure of authenticate, line 60:
\* the document parsed from the response is the one the webid serves
TrustJsonJwks(ok) ==
    /\ Running(trust, "json_jwks")
    /\ trust' = IF ok
                THEN [trust EXCEPT !.pc = "done", !.doc = {published},
                                   !.status = ContainsIssuer(published, token_str.claims)]
                ELSE [trust EXCEPT !.pc = "done", !.status = "InvalidJwks"]
    /\ Join(trust', sig)
    /\ UNCHANGED <<token_str, now, sig, fetched, published>>
    /\ UNCHANGED <<earlier, rvars, pvars, svars, cvars, tvars>>

\* get_issuer_jwks, line 108
SigSendCfg(ok) ==
    /\ Running(sig, "send_cfg")
    /\ sig' = IF ok THEN [sig EXCEPT !.pc = "json_cfg"]
              ELSE [sig EXCEPT !.pc = "done", !.status = "NoIssuerConfig"]
    /\ Join(trust, sig')
    /\ UNCHANGED <<token_str, now, trust, fetched, published>>
    /\ UNCHANGED <<earlier, rvars, pvars, svars, cvars, tvars>>

SigJsonCfgFetchesAnyway(parsed) ==
    /\ Running(sig, "json_cfg")
    /\ sig' = IF parsed = {}
              THEN [sig EXCEPT !.pc = "done", !.status = "InvalidIssuerConfig"]
              ELSE [sig EXCEPT !.pc = "send_jwks", !.jwks_uri = parsed]
    /\ fetched' = fetched \cup {JwksRequest("get_issuer_jwks", u) : u \in JwksUris}
    /\ Join(trust, sig')
    /\ UNCHANGED <<token_str, now, trust, published>>
    /\ UNCHANGED <<earlier, rvars, pvars, svars, cvars, tvars>>

\* get_issuer_jwks, lines 109-111
SigJsonCfg(parsed) ==
    /\ Running(sig, "json_cfg")
    /\ sig' = IF parsed = {}
              THEN [sig EXCEPT !.pc = "done", !.status = "InvalidIssuerConfig"]
              ELSE [sig EXCEPT !.pc = "send_jwks", !.jwks_uri = parsed]
    /\ fetched' = fetched \cup {JwksRequest("get_issuer_jwks", u) : u \in parsed}
    /\ Join(trust, sig')
    /\ UNCHANGED <<token_str, now, trust, published>>
    /\ UNCHANGED <<earlier, rvars, pvars, svars, cvars, tvars>>

\* get_issuer_jwks, line 112
SigSendJwks(ok) ==
    /\ Running(sig, "send_jwks")
    /\ sig' = IF ok THEN [sig EXCEPT !.pc = "json_jwks"]
              ELSE [sig EXCEPT !.pc = "done", !.status = "NoJwks"]
    /\ Join(trust, sig')
    /\ UNCHANGED <<token_str, now, trust, fetched, published>>
    /\ UNCHANGED <<earlier, rvars, pvars, svars, cvars, tvars>>

\* get_issuer_jwks, lines 113-115, and verify_signature, lines 89-95
SigJsonJwks(parsed) ==
    /\ Running(sig, "json_jwks")
    /\ sig' = IF parsed = {}
              THEN [sig EXCEPT !.pc = "done", !.status = "InvalidJwks"]
              ELSE LET keys == CHOOSE k \in parsed : TRUE
                       v == VerifyKeys(keys, token_str.claims)
                   IN  [sig EXCEPT !.pc = "done", !.status = v.status, !.jwk = v.jwk]
    /\ Join(trust, sig')
    /\ UNCHANGED <<token_str, now, trust, fetched, published>>
    /\ UNCHANGED <<earlier, rvars, pvars, svars, cvars, tvars>>

\* the caller takes the result; the next call starts from scratch
Returned ==
    /\ phase = "done"
    /\ phase' = "idle"
    /\ token_str' = Malformed
    /\ now' = 0
    /\ published' = [issuers |-> {}]
    /\ trust' = IdleTrust
    /\ sig' = IdleSig
    /\ fetched' = {}
    /\ result' = "pending"
    /\ UNCHANGED <<rvars, pvars, svars, cvars, tvars>>

Return == Returned /\ UNCHANGED earlier

\* the same step, with the history of accepted tokens kept
ReturnRemembered ==
    /\ Returned
    /\ earlier' = IF result = "Ok" THEN {token_str} ELSE earlier

InitAuth ==
    /\ phase = "idle"
    /\ token_str = Malformed
    /\ now = 0
    /\ published = [issuers |-> {}]
    /\ trust = IdleTrust
    /\ sig = IdleSig
    /\ fetched = {}
    /\ result = "pending"
    /\ earlier = {}

NextAuth ==
    \/ phase = "idle" /\ \E s \in TokenStrs, n \in Times, d \in WebidDoc :
                            Authenticate(s, n, d)
    \/ \E ok \in BOOLEAN : TrustSendCfg(ok)
    \/ \E parsed \in {{}} \cup {{u} : u \in JwksUris} : TrustJsonCfg(parsed)
    \/ \E ok \in BOOLEAN : TrustSendJwks(ok)
    \/ \E ok \in BOOLEAN : TrustJsonJwks(ok)
    \/ \E ok \in BOOLEAN : SigSendCfg(ok)
    \/ \E parsed \in {{}} \cup {{u} : u \in JwksUris} : SigJsonCfg(parsed)
    \/ \E ok \in BOOLEAN : SigSendJwks(ok)
    \/ \E parsed \in {{}} \cup {{k} : k \in JWKSets} : SigJsonJwks(parsed)
    \/ Return

\* the tokens one client presents in call after call: one per issuer, valid
\* from 0 until 0 or until MaxTime
Presented ==
    {s \in TokenStrs : /\ s.json
                       /\ s.claims.webid = "alice"
                       /\ s.claims.aud = {"solid", "client1"}
                       /\ s.claims.azp = "client1"
                       /\ s.claims.nbf = {}
                       /\ s.claims.iat = 0
                       /\ s.claims.exp \in {0, MaxTime}}

\* calls of authenticate one after the other, the WebID document and the
\* answers of the network being chosen anew for each call
NextCalls ==
    \/ phase = "idle" /\ \E s \in Presented, n \in Times, d \in WebidDoc :
                            Authenticate(s, n, d)
    \/ \E ok \in BOOLEAN : TrustSendCfg(ok)
    \/ \E parsed \in {{}} \cup {{u} : u \in JwksUris} : TrustJsonCfg(parsed)
    \/ \E ok \in BOOLEAN : TrustSendJwks(ok)
    \/ \E ok \in BOOLEAN : TrustJsonJwks(ok)
    \/ \E ok \in BOOLEAN : SigSendCfg(ok)
    \/ \E parsed \in {{}} \cup {{u} : u \in JwksUris} : SigJsonCfg(parsed)
    \/ \E ok \in BOOLEAN : SigSendJwks(ok)
    \/ \E parsed \in {{}} \cup {{k} : k \in JWKSets} : SigJsonJwks(parsed)
    \/ ReturnRemembered

\* what try_join! (line 67) polls: the next step of the trust branch, of the
\* signature branch
TrustStep ==
    \/ \E ok \in BOOLEAN : TrustSendCfg(ok) \/ TrustSendJwks(ok) \/ TrustJsonJwks(ok)
    \/ \E parsed \in {{}} \cup {{u} : u \in JwksUris} : TrustJsonCfg(parsed)
SigStep ==
    \/ \E ok \in BOOLEAN : SigSendCfg(ok) \/ SigSendJwks(ok)
    \/ \E parsed \in {{}} \cup {{u} : u \in JwksUris} : SigJsonCfg(parsed)
    \/ \E parsed \in {{}} \cup {{k} : k \in JWKSets} : SigJsonJwks(parsed)

----------------------------------------------------------------------------
(* storage.rs: impl KeyValueStore for HashMap<K, V>.  A store is a function *)
(* from its keys to their values.                                          *)

SetKeepsExisting(store, key, value) ==
    [k \in DOMAIN store \cup {key} |-> IF k \in DOMAIN store THEN store[k] ELSE value]

\* set: insert(key, value)
Set(store, key, value) ==
    [k \in DOMAIN store \cup {key} |-> IF k = key THEN value ELSE store[k]]

\* get
Get(store, key) == IF key \in DOMAIN store THEN {store[key]} ELSE {}

\* del: remove(key)
Del(store, key) == [k \in DOMAIN store \ {key} |-> store[k]]

\* what set returns: get_key_value(&key).unwrap().0, the key of the entry
SetReturns(store, key, value) == CHOOSE k \in DOMAIN Set(store, key, value) : k = key

\* what del returns: remove(key), the value the key had
DelReturns(store, key) == IF key \in DOMAIN store THEN {store[key]} ELSE {}

ListEmpty(store) == {<<>>}

RECURSIVE Orders(_)
Orders(S) ==
    IF S = {} THEN {<<>>}
    ELSE UNION {{<<x>> \o s : s \in Orders(S \ {x})} : x \in S}

\* list: the iterator over keys(), every key once, in the map's own order,
\* which is any order
List(store) == Orders(DOMAIN store)

----------------------------------------------------------------------------
(* uma/errors.rs                                                           *)

\* struct ErrorMessage (error_uri is None in every message of the crate)
ErrorMessage(status_code, error_code, error_description) ==
    [status_code |-> status_code, error_code |-> error_code,
     error_description |-> {error_description}]

DEFAULT ==
    ErrorMessage(500, "internal_server_error",
                 "Something went wrong. Could not create a more specific error.")

RESOURCE_NOT_FOUND ==
    ErrorMessage(404, "not_found", "The referenced resource could be found.")

UNSUPPORTED_METHOD_TYPE ==
    ErrorMessage(404, "unsupported_method_type",
                 "The request used an unsupported HTTP method.")

INVALID_REQUEST ==
    ErrorMessage(400, "invalid_request",
                 "The request is missing a required parameter, includes an invalid parameter value, includes a parameter more than once, or is otherwise malformed.")

\* a response: the status, the headers, and as body either an ErrorMessage,
\* a SuccessfulResponse (of the registration API: _id and resource_description,
\* of the permission endpoint: ticket) or (List) the sequence of keys
NoBody ==
    [error |-> {}, _id |-> {}, resource_description |-> {}, keys |-> {}, ticket |-> {}]

\* impl From<ErrorMessage> for Response<ErrorMessage>
ErrorResponse(msg) ==
    [status |-> msg.status_code,
     headers |-> {<<"Content-Type", "application/json">>, <<"Cache-Control", "no-store">>},
     body |-> [NoBody EXCEPT !.error = {msg}]]

\* Response::builder().status(..).body(SuccessfulResponse::new(id, None, description))
SuccessfulResponse(status, id, description) ==
    [status |-> status,
     headers |-> {},
     body |-> [NoBody EXCEPT !._id = {id}, !.resource_description = description]]

----------------------------------------------------------------------------
(* uma/resource_registration.rs.  A handler is an operator from the store  *)
(* and the request to the store it leaves and the response it returns.     *)

Methods == {"GET", "POST", "PUT", "DELETE"}
Uuids == {<<"u1">>, <<"u2">>}
IdStrings == Uuids \cup {<<"x">>}
Paths == {<<"/">>} \cup {<<"/">> \o i : i \in IdStrings} \cup {<<"/", "/", "u1">>}

None == {}
\* struct ResourceDescription: two descriptions that differ in every field
ResourceDescription ==
    {[_id |-> "", resource_scopes |-> <<"view", "print">>, description |-> None,
      icon_uri |-> None, name |-> None, type |-> None],
     [_id |-> "x", resource_scopes |-> <<>>, description |-> {"photos"},
      icon_uri |-> {"icon"}, name |-> {"album"}, type |-> {"photoalbum"}]}

RECURSIVE TrimStartMatches(_, _)
TrimStartMatches(s, c) ==
    IF s # <<>> /\ s[1] = c THEN TrimStartMatches(Tail(s), c) ELSE s

CreateDropsScopes(store, req, id) ==
    IF req.method # "POST"
    THEN [store |-> store, response |-> ErrorResponse(UNSUPPORTED_METHOD_TYPE)]
    ELSE [store |-> Set(store, id, [req.body EXCEPT !.resource_scopes = <<>>]),
          response |-> SuccessfulResponse(201, id, None)]

CreateAtPath(store, req, id) ==
    IF req.method # "POST"
    THEN [store |-> store, response |-> ErrorResponse(UNSUPPORTED_METHOD_TYPE)]
    ELSE LET key == IF TrimStartMatches(req.path, "/") = <<>>
                    THEN id ELSE TrimStartMatches(req.path, "/")
         IN  [store |-> Set(store, key, req.body),
              response |-> SuccessfulResponse(201, key, None)]

\* create_resource_registration; id is the value of Uuid::new_v4().to_string()
create_resource_registration(store, req, id) ==
    IF req.method # "POST"
    THEN [store |-> store, response |-> ErrorResponse(UNSUPPORTED_METHOD_TYPE)]
    ELSE [store |-> Set(store, id, req.body),
          response |-> SuccessfulResponse(201, id, None)]

ReadTakes(store, req) ==
    IF req.method # "GET"
    THEN [store |-> store, response |-> ErrorResponse(UNSUPPORTED_METHOD_TYPE)]
    ELSE LET id == TrimStartMatches(req.path, "/")
         IN  IF Get(store, id) # None
             THEN [store |-> Del(store, id),
                   response |-> SuccessfulResponse(200, id, Get(store, id))]
             ELSE [store |-> store, response |-> ErrorResponse(RESOURCE_NOT_FOUND)]

ReadAlwaysFound(store, req) ==
    IF req.method # "GET"
    THEN [store |-> store, response |-> ErrorResponse(UNSUPPORTED_METHOD_TYPE)]
    ELSE LET id == TrimStartMatches(req.path, "/")
         IN  [store |-> store,
              response |-> SuccessfulResponse(200, id, Get(store, id))]

\* read_resource_registration
read_resource_registration(store, req) ==
    IF req.method # "GET"
    THEN [store |-> store, response |-> ErrorResponse(UNSUPPORTED_METHOD_TYPE)]
    ELSE LET id == TrimStartMatches(req.path, "/")
         IN  IF Get(store, id) # None
             THEN [store |-> store,
                   response |-> SuccessfulResponse(200, id, Get(store, id))]
             ELSE [store |-> store, response |-> ErrorResponse(RESOURCE_NOT_FOUND)]

UpdateKeepsOptionals(store, req) ==
    IF req.method # "PUT"
    THEN [store |-> store, response |-> ErrorResponse(UNSUPPORTED_METHOD_TYPE)]
    ELSE LET id == TrimStartMatches(req.path, "/")
             merged == IF Get(store, id) = None \/ req.body.description # None
                       THEN req.body
                       ELSE [req.body EXCEPT !.description = store[id].description]
         IN  [store |-> Set(store, id, merged),
              response |-> SuccessfulResponse(200, id, None)]

UpdateRequiresExisting(store, req) ==
    IF req.method # "PUT"
    THEN [store |-> store, response |-> ErrorResponse(UNSUPPORTED_METHOD_TYPE)]
    ELSE LET id == TrimStartMatches(req.path, "/")
         IN  IF Get(store, id) # None
             THEN [store |-> Set(store, id, req.body),
                   response |-> SuccessfulResponse(200, id, None)]
             ELSE [store |-> store, response |-> ErrorResponse(RESOURCE_NOT_FOUND)]

UpdateRejectsNoScopes(store, req) ==
    IF req.method # "PUT"
    THEN [store |-> store, response |-> ErrorResponse(UNSUPPORTED_METHOD_TYPE)]
    ELSE IF req.body.resource_scopes = <<>>
    THEN [store |-> store, response |-> ErrorResponse(INVALID_REQUEST)]
    ELSE LET id == TrimStartMatches(req.path, "/")
         IN  [store |-> Set(store, id, req.body),
              response |-> SuccessfulResponse(200, id, None)]

\* update_resource_registration
update_resource_registration(store, req) ==
    IF req.method # "PUT"
    THEN [store |-> store, response |-> ErrorResponse(UNSUPPORTED_METHOD_TYPE)]
    ELSE LET id == TrimStartMatches(req.path, "/")
         IN  [store |-> Set(store, id, req.body),
              response |-> SuccessfulResponse(200, id, None)]

DeleteIdempotent(store, req) ==
    IF req.method # "DELETE"
    THEN [store |-> store, response |-> ErrorResponse(UNSUPPORTED_METHOD_TYPE)]
    ELSE LET id == TrimStartMatches(req.path, "/")
         IN  [store |-> Del(store, id), response |-> SuccessfulResponse(204, id, None)]

\* delete_resource_registration
delete_resource_registration(store, req) ==
    IF req.method # "DELETE"
    THEN [store |-> store, response |-> ErrorResponse(UNSUPPORTED_METHOD_TYPE)]
    ELSE LET id == TrimStartMatches(req.path, "/")
         IN  IF Get(store, id) # None
             THEN [store |-> Del(store, id),
                   response |-> SuccessfulResponse(204, id, None)]
             ELSE [store |-> store, response |-> ErrorResponse(RESOURCE_NOT_FOUND)]

ListChecksPathFirst(store, req, keys) ==
    IF req.path # <<"/">>
    THEN [store |-> store, response |-> ErrorResponse(INVALID_REQUEST)]
    ELSE IF req.method # "GET"
    THEN [store |-> store, response |-> ErrorResponse(UNSUPPORTED_METHOD_TYPE)]
    ELSE [store |-> store,
          response |-> [status |-> 200, headers |-> {},
                        body |-> [NoBody EXCEPT !.keys = {keys}]]]

\* list_resource_registration; keys is the sequence the iterator yields
list_resource_registration(store, req, keys) ==
    IF req.method # "GET"
    THEN [store |-> store, response |-> ErrorResponse(UNSUPPORTED_METHOD_TYPE)]
    ELSE IF req.path # <<"/">>
    THEN [store |-> store, response |-> ErrorResponse(INVALID_REQUEST)]
    ELSE [store |-> store,
          response |-> [status |-> 200, headers |-> {},
                        body |-> [NoBody EXCEPT !.keys = {keys}]]]

----------------------------------------------------------------------------
(* The registration API as a state machine: one step per handled request.  *)

\* the ids Uuid::new_v4 can still return: a version 4 UUID is taken to differ
\* from every id generated before and from every key of the store
FreshUuids == Uuids \ (generated \cup DOMAIN resources)

Handled(op, req, out) ==
    /\ request' = [op |-> op, method |-> req.method, path |-> req.path, body |-> req.body]
    /\ resources' = out.store
    /\ response' = out.response

Create(req, id) ==
    /\ id \in FreshUuids
    /\ Handled("create", req, create_resource_registration(resources, req, id))
    /\ generated' = IF req.method = "POST" THEN generated \cup {id} ELSE generated
    /\ registered' = IF response'.status = 201
                     THEN Set(registered, CHOOSE i \in response'.body._id : TRUE, req.body)
                     ELSE registered
    /\ UNCHANGED <<avars, pvars, svars, cvars, tvars>>

Read(req) ==
    /\ Handled("read", req, read_resource_registration(resources, req))
    /\ UNCHANGED <<generated, registered>>
    /\ UNCHANGED <<avars, pvars, svars, cvars, tvars>>

Update(req) ==
    /\ Handled("update", req, update_resource_registration(resources, req))
    /\ registered' = IF req.method = "PUT"
                     THEN Del(registered, TrimStartMatches(req.path, "/"))
                     ELSE registered
    /\ UNCHANGED generated
    /\ UNCHANGED <<avars, pvars, svars, cvars, tvars>>

DeleteCascades(req) ==
    /\ Handled("delete", req, delete_resource_registration(resources, req))
    /\ registered' = IF req.method = "DELETE"
                     THEN Del(registered, TrimStartMatches(req.path, "/"))
                     ELSE registered
    /\ tickets' = IF response'.status = 204
                  THEN [t \in {u \in DOMAIN tickets :
                                 \A i \in DOMAIN tickets[u] :
                                    tickets[u][i].resource_id
                                        # TrimStartMatches(req.path, "/")}
                          |-> tickets[t]]
                  ELSE tickets
    /\ UNCHANGED <<generated, issued>>
    /\ UNCHANGED <<avars, svars, cvars, tvars>>

Delete(req) ==
    /\ Handled("delete", req, delete_resource_registration(resources, req))
    /\ registered' = IF req.method = "DELETE"
                     THEN Del(registered, TrimStartMatches(req.path, "/"))
                     ELSE registered
    /\ UNCHANGED generated
    /\ UNCHANGED <<avars, pvars, svars, cvars, tvars>>

\* store.list() is reached only behind the two checks (line 283)
ListIds(req) ==
    /\ \E keys \in IF req.method = "GET" /\ req.path = <<"/">>
                    THEN List(resources) ELSE {<<>>} :
          Handled("list", req, list_resource_registration(resources, req, keys))
    /\ UNCHANGED <<generated, registered>>
    /\ UNCHANGED <<avars, pvars, svars, cvars, tvars>>

\* Request<ResourceDescription> and Request<!>
BodyRequests == [method : Methods, path : Paths, body : ResourceDescription]
EmptyRequests == [method : Methods, path : Paths, body : {None}]
CreateRequests == {req \in BodyRequests : req.path \in {<<"/">>, <<"/", "x">>}}

NextReg ==
    \/ \E req \in CreateRequests, id \in Uuids : Create(req, id)
    \/ \E req \in EmptyRequests : Read(req)
    \/ \E req \in BodyRequests : Update(req)
    \/ \E req \in EmptyRequests : Delete(req)
    \/ \E req \in EmptyRequests : ListIds(req)

NoRequest == [op |-> "none", method |-> "GET", path |-> <<"/">>, body |-> None]

InitReg ==
    /\ resources = <<>>
    /\ generated = {}
    /\ request = NoRequest
    /\ response = [status |-> 0, headers |-> {}, body |-> NoBody]
    /\ registered = <<>>

----------------------------------------------------------------------------
(* uma/permission.rs: the permission endpoint.                             *)

MaxPermissions == 2
TicketUuids == {<<"t1">>, <<"t2">>}

\* struct Permission: a resource id the caller chooses (the id of a resource
\* the registry may hold, or a string of the shape of a ticket) and scopes
Permission ==
    {[resource_id |-> <<"u1">>, resource_scopes |-> <<"view">>],
     [resource_id |-> <<"t2">>, resource_scopes |-> <<"print", "view">>]}

\* type PermissionRequest = Vec<Permission>
PermissionRequest == SeqsUpTo(Permission, MaxPermissions)

Range(f) == {f[i] : i \in DOMAIN f}

\* the errors of the permission endpoint, permission.rs 122-138
INVALID_RESOURCE_ID ==
    ErrorMessage(400, "invalid_resource_id",
                 "At least one of the provided resource identifiers was not found at the authorization server.")

INVALID_SCOPE ==
    ErrorMessage(400, "invalid_scope",
                 "At least one of the scopes included in the request was not registered previously by this resource server for the referenced resource.")

\* SuccessfulResponse::new(ticket) with status CREATED
TicketResponse(ticket) ==
    [status |-> 201, headers |-> {}, body |-> [NoBody EXCEPT !.ticket = {ticket}]]

TicketIsFirstResource(store, req, ticket) ==
    IF req.method # "POST"
    THEN [store |-> store, response |-> ErrorResponse(UNSUPPORTED_METHOD_TYPE)]
    ELSE LET key == IF req.body = <<>> THEN ticket ELSE req.body[1].resource_id
         IN  [store |-> Set(store, key, req.body), response |-> TicketResponse(key)]

TicketKeepsFirstOnly(store, req, ticket) ==
    IF req.method # "POST"
    THEN [store |-> store, response |-> ErrorResponse(UNSUPPORTED_METHOD_TYPE)]
    ELSE [store |-> Set(store, ticket, IF req.body = <<>> THEN <<>> ELSE <<req.body[1]>>),
          response |-> TicketResponse(ticket)]

TicketStoredBeforeMethodCheck(store, req, ticket) ==
    IF req.method # "POST"
    THEN [store |-> Set(store, ticket, req.body),
          response |-> ErrorResponse(UNSUPPORTED_METHOD_TYPE)]
    ELSE [store |-> Set(store, ticket, req.body), response |-> TicketResponse(ticket)]

TicketValidatesPermissions(store, req, ticket) ==
    IF req.method # "POST"
    THEN [store |-> store, response |-> ErrorResponse(UNSUPPORTED_METHOD_TYPE)]
    ELSE IF \E p \in Range(req.body) : p.resource_id \notin DOMAIN resources
    THEN [store |-> store, response |-> ErrorResponse(INVALID_RESOURCE_ID)]
    ELSE IF \E p \in Range(req.body) :
               ~(Range(p.resource_scopes)
                    \subseteq Range(resources[p.resource_id].resource_scopes))
    THEN [store |-> store, response |-> ErrorResponse(INVALID_SCOPE)]
    ELSE [store |-> Set(store, ticket, req.body), response |-> TicketResponse(ticket)]

TicketSingleSlot(store, req, ticket) ==
    IF req.method # "POST"
    THEN [store |-> store, response |-> ErrorResponse(UNSUPPORTED_METHOD_TYPE)]
    ELSE [store |-> Set(<<>>, ticket, req.body), response |-> TicketResponse(ticket)]

\* request_permission_ticket; ticket is the value of Uuid::new_v4().to_string()
request_permission_ticket(store, req, ticket) ==
    IF req.method # "POST"
    THEN [store |-> store, response |-> ErrorResponse(UNSUPPORTED_METHOD_TYPE)]
    ELSE [store |-> Set(store, ticket, req.body), response |-> TicketResponse(ticket)]

\* the strings a permission request or a stored ticket mentions as resources
ResourceIds(permissions) == {p.resource_id : p \in Range(permissions)}

\* the tickets Uuid::new_v4 can still return: a version 4 UUID is taken to
\* differ from every string the server has seen, the request's included
FreshTickets(req) ==
    TicketUuids \ (Range(issued) \cup DOMAIN tickets \cup generated
                    \cup DOMAIN resources \cup ResourceIds(req.body)
                    \cup UNION {ResourceIds(tickets[t]) : t \in DOMAIN tickets})

IssueTicket(req, ticket) ==
    /\ req.method = "POST" => ticket \in FreshTickets(req)
    /\ LET out == request_permission_ticket(tickets, req, ticket)
       IN  /\ request' = [op |-> "issue_ticket", method |-> req.method,
                          path |-> req.path, body |-> req.body]
           /\ tickets' = out.store
           /\ response' = out.response
    /\ issued' = IF req.method = "POST" THEN Append(issued, ticket) ELSE issued
    /\ UNCHANGED <<resources, generated, registered>>
    /\ UNCHANGED <<avars, svars, cvars, tvars>>

\* Request<PermissionRequest>
TicketRequests == [method : Methods, path : {<<"/">>}, body : PermissionRequest]

\* the registrations and removals a resource server makes between its
\* permission requests
Registrations ==
    {req \in CreateRequests : /\ req.method = "POST"
                              /\ req.path = <<"/">>
                              /\ req.body.resource_scopes # <<>>}
Removals ==
    {req \in EmptyRequests : /\ req.method = "DELETE"
                             /\ TrimStartMatches(req.path, "/") \in Uuids}

NextPerm ==
    \/ \E req \in TicketRequests, ticket \in TicketUuids : IssueTicket(req, ticket)
    \/ \E req \in Registrations, id \in Uuids : Create(req, id)
    \/ \E req \in Removals : Delete(req)

\* the whole protection API, every operation with every method: the
\* resource server registers one description, reads and removes the ids it
\* was given, replaces the first of them, lists the collection and asks for
\* tickets for at most one permission, also one for a scope that was never
\* registered
ApiCreates ==
    {req \in CreateRequests : req.path = <<"/">> /\ req.body.resource_scopes # <<>>}
ApiReads == {req \in EmptyRequests : req.path = <<"/", "u2">>}
ApiUpdates ==
    {req \in BodyRequests : req.path = <<"/", "u1">> /\ req.body.resource_scopes # <<>>}
ApiDeletes == {req \in EmptyRequests : TrimStartMatches(req.path, "/") \in Uuids}
ApiLists == {req \in EmptyRequests : req.path \in {<<"/">>, <<"/", "u1">>}}
\* a permission for a scope that no registered description has
OtherScope == [resource_id |-> <<"u1">>, resource_scopes |-> <<"edit">>]
ApiTickets ==
    {req \in TicketRequests : Len(req.body) <= 1}
        \cup [method : Methods, path : {<<"/">>}, body : {<<OtherScope>>}]

NextApi ==
    \/ \E req \in ApiTickets, ticket \in TicketUuids : IssueTicket(req, ticket)
    \/ \E req \in ApiCreates, id \in Uuids : Create(req, id)
    \/ \E req \in ApiReads : Read(req)
    \/ \E req \in ApiUpdates : Update(req)
    \/ \E req \in ApiDeletes : Delete(req)
    \/ \E req \in ApiLists : ListIds(req)

InitPerm ==
    /\ tickets = <<>>
    /\ issued = <<>>

----------------------------------------------------------------------------
(* storage.rs as a state machine: one step per call on a HashMap<K, V>.    *)

StoreKeys == {"ka", "kb", "kc"}
StoreValues == {"v1", "v2"}

\* a call and what it returned: ret is the key (set) or the Option of a
\* value (get, del), keys is the sequence the iterator of list yields
Called(op, key, value, ret, keys) ==
    [op |-> op, key |-> key, value |-> value, ret |-> ret, keys |-> keys]

KvSet(key, value) ==
    /\ hashmap' = Set(hashmap, key, value)
    /\ call' = Called("set", key, {value}, {SetReturns(hashmap, key, value)}, <<>>)
    /\ written' = [k \in DOMAIN written \cup {key} |->
                      IF k = key THEN value ELSE written[k]]
    /\ UNCHANGED <<avars, rvars, pvars, cvars, tvars>>

KvGet(key) ==
    /\ call' = Called("get", key, {}, Get(hashmap, key), <<>>)
    /\ UNCHANGED <<hashmap, written>>
    /\ UNCHANGED <<avars, rvars, pvars, cvars, tvars>>

KvDel(key) ==
    /\ hashmap' = Del(hashmap, key)
    /\ call' = Called("del", key, {}, DelReturns(hashmap, key), <<>>)
    /\ written' = [k \in DOMAIN written \ {key} |-> written[k]]
    /\ UNCHANGED <<avars, rvars, pvars, cvars, tvars>>

KvList ==
    /\ \E keys \in List(hashmap) : call' = Called("list", "", {}, {}, keys)
    /\ UNCHANGED <<hashmap, written>>
    /\ UNCHANGED <<avars, rvars, pvars, cvars, tvars>>

NextStore ==
    \/ \E key \in StoreKeys, value \in StoreValues : KvSet(key, value)
    \/ \E key \in StoreKeys : KvGet(key)
    \/ \E key \in StoreKeys : KvDel(key)
    \/ KvList

\* HashMap::new()
InitStore ==
    /\ hashmap = <<>>
    /\ call = Called("none", "", {}, {}, <<>>)
    /\ written = <<>>

----------------------------------------------------------------------------
(* catch_errors (resource_registration.rs 151-156, permission.rs 140-145): *)
(* every handler passes the result of Response::builder() through it.      *)

\* http::Result<Response<T>>
HttpOk(resp) == [ok |-> TRUE, response |-> {resp}, error |-> {}]
HttpErr(cause) == [ok |-> FALSE, response |-> {}, error |-> {cause}]

\* the messages of http::Error
Causes == {"invalid status code", "invalid HTTP header name", "failed to parse header value"}

\* the responses the handlers build
BuiltResponses ==
    {SuccessfulResponse(status, id, description) :
        status \in {200, 201, 204}, id \in IdStrings \cup {<<>>},
        description \in {None} \cup {{d} : d \in ResourceDescription}}
    \cup {TicketResponse(ticket) : ticket \in TicketUuids}
    \cup {[status |-> 200, headers |-> {}, body |-> [NoBody EXCEPT !.keys = {keys}]] :
             keys \in UNION {Orders(ids) : ids \in SUBSET IdStrings}}

HttpResults == {HttpOk(resp) : resp \in BuiltResponses} \cup {HttpErr(c) : c \in Causes}

CatchErrorsLeaksCause(res) ==
    IF res.ok THEN CHOOSE resp \in res.response : TRUE
    ELSE ErrorResponse(ErrorMessage(500, "internal_server_error",
                                    CHOOSE c \in res.error : TRUE))

\* catch_errors: result.map_err(|error| ErrorMessage::default().into())
catch_errors(res) ==
    IF res.ok THEN CHOOSE resp \in res.response : TRUE
    ELSE ErrorResponse(DEFAULT)

\* no handler has reached its builder yet
NotBuilt == [ok |-> FALSE, response |-> {}, error |-> {}]

\* Response::builder()...body(..) of a handler gives its result
Build(res) ==
    /\ built' = res
    /\ caught' = {}
    /\ UNCHANGED <<avars, rvars, pvars, svars, tvars>>

\* return catch_errors(response)
CatchErrors ==
    /\ built # NotBuilt
    /\ caught = {}
    /\ caught' = {catch_errors(built)}
    /\ UNCHANGED built
    /\ UNCHANGED <<avars, rvars, pvars, svars, tvars>>

NextCatch ==
    \/ \E res \in HttpResults : Build(res)
    \/ CatchErrors

InitCatch ==
    /\ built = NotBuilt
    /\ caught = {}

----------------------------------------------------------------------------
(* The handlers called by several callers.  Every handler takes its store   *)
(* as `store: &mut ...Store`, and what it returns borrows from the store    *)
(* (the ids, the description read, the iterator of list): a caller holds    *)
(* the one mutable reference to the store from the call until it has        *)
(* dropped the response.                                                    *)

Callers == {"c1", "c2"}
Stores == {"resources", "tickets"}

\* the store an operation is given
StoreOf(op) == IF op = "issue_ticket" THEN "tickets" ELSE "resources"

\* the calls the callers make, and the request of each: a registration, a
\* read, a replacement and a removal of the resource u1, the list of the
\* collection, a permission request for u1
SharedOps == {"create", "read", "update", "delete", "list", "issue_ticket"}
RequestOf(op) ==
    CASE op = "create" -> CHOOSE r \in Registrations : r.body._id = ""
      [] op = "read" ->
            CHOOSE r \in EmptyRequests : r.method = "GET" /\ r.path = <<"/", "u1">>
      [] op = "update" ->
            CHOOSE r \in BodyRequests : /\ r.method = "PUT" /\ r.path = <<"/", "u1">>
                                        /\ r.body._id = "x"
      [] op = "delete" -> CHOOSE r \in Removals : r.path = <<"/", "u1">>
      [] op = "list" ->
            CHOOSE r \in EmptyRequests : r.method = "GET" /\ r.path = <<"/">>
      [] op = "issue_ticket" ->
            CHOOSE r \in TicketRequests : /\ r.method = "POST"
                                          /\ Len(r.body) = 1
                                          /\ r.body[1].resource_id = <<"u1">>

\* the handler of an operation on its store; id is the value Uuid::new_v4
\* returns in the call, keys what the iterator of list yields
Handle(op, store, req, id, keys) ==
    CASE op = "create" -> create_resource_registration(store, req, id)
      [] op = "read" -> read_resource_registration(store, req)
      [] op = "update" -> update_resource_registration(store, req)
      [] op = "delete" -> delete_resource_registration(store, req)
      [] op = "list" -> list_resource_registration(store, req, keys)
      [] op = "issue_ticket" -> request_permission_ticket(store, req, id)

\* what a caller sees of a response; the keys of a list as a set, the
\* iterator of a HashMap having no order of its own
Seen(resp) ==
    [status |-> resp.status,
     error |-> {e.error_code : e \in resp.body.error},
     _id |-> resp.body._id,
     resource_description |-> resp.body.resource_description,
     ticket |-> resp.body.ticket,
     keys |-> {Range(keys) : keys \in resp.body.keys}]

Idle ==
    [pc |-> "idle", op |-> "none", id |-> <<>>,
     yielded |-> <<>>, response |-> {}, expect |-> {}]

BorrowShared(holders) == TRUE

\* a second `&mut` to a store cannot exist while the first is alive
CanBorrow(holders) == holders = {}

\* a request arrives and a caller is about to call its handler
Arrive(c, op) ==
    /\ tasks[c].pc = "idle"
    /\ tasks' = [tasks EXCEPT ![c] = [Idle EXCEPT !.pc = "waiting", !.op = op]]
    /\ UNCHANGED <<resources, tickets, generated, issued, borrow, serial>>
    /\ UNCHANGED <<request, response, registered>>
    /\ UNCHANGED <<avars, svars, cvars>>

\* the ids Uuid::new_v4 can return in a call of the caller's operation
NewIds(c) ==
    CASE tasks[c].op = "create" -> FreshUuids
      [] tasks[c].op = "issue_ticket" -> FreshTickets(RequestOf(tasks[c].op))
      [] OTHER -> {<<>>}

\* the caller gets the mutable reference and calls the handler with it
Enter(c, id) ==
    LET t == tasks[c]
        s == StoreOf(t.op)
        alone == Handle(t.op, serial[s], RequestOf(t.op), id,
                        CHOOSE keys \in List(serial[s]) : TRUE)
    IN  /\ t.pc = "waiting"
        /\ CanBorrow(borrow[s])
        /\ id \in NewIds(c)
        /\ borrow' = [borrow EXCEPT ![s] = borrow[s] \cup {c}]
        /\ tasks' = [tasks EXCEPT ![c] = [t EXCEPT !.pc = "running", !.id = id,
                                                   !.expect = {Seen(alone.response)}]]
        /\ serial' = [serial EXCEPT ![s] = alone.store]
        /\ generated' = IF t.op = "create" THEN generated \cup {id} ELSE generated
        /\ issued' = IF t.op = "issue_ticket" THEN Append(issued, id) ELSE issued
        /\ UNCHANGED <<resources, tickets>>
        /\ UNCHANGED <<request, response, registered>>
        /\ UNCHANGED <<avars, svars, cvars>>

\* the handler runs: its checks and its one call on the store; list returns
\* the iterator, which has not read a key yet
Run(c) ==
    LET t == tasks[c]
        store == IF StoreOf(t.op) = "tickets" THEN tickets ELSE resources
        out == Handle(t.op, store, RequestOf(t.op), t.id, <<>>)
    IN  /\ t.pc = "running"
        /\ IF t.op = "list" /\ out.response.status = 200
           THEN tasks' = [tasks EXCEPT ![c] = [t EXCEPT !.pc = "iterating"]]
           ELSE tasks' = [tasks EXCEPT ![c] =
                             [t EXCEPT !.pc = "responded",
                                       !.response = {Seen(out.response)}]]
        /\ resources' = IF StoreOf(t.op) = "resources" THEN out.store ELSE resources
        /\ tickets' = IF StoreOf(t.op) = "tickets" THEN out.store ELSE tickets
        /\ UNCHANGED <<generated, issued, borrow, serial>>
        /\ UNCHANGED <<request, response, registered>>
        /\ UNCHANGED <<avars, svars, cvars>>

\* the caller takes the next key from the iterator of list (storage.rs 34-39:
\* the Keys of the map, read as the caller goes through them)
Yield(c, key) ==
    LET t == tasks[c]
    IN  /\ t.pc = "iterating"
        /\ key \in DOMAIN resources \ Range(t.yielded)
        /\ tasks' = [tasks EXCEPT ![c] = [t EXCEPT !.yielded = Append(t.yielded, key)]]
        /\ UNCHANGED <<resources, tickets, generated, issued, borrow, serial>>
        /\ UNCHANGED <<request, response, registered>>
        /\ UNCHANGED <<avars, svars, cvars>>

\* the iterator has no further key: the caller has the whole list
Exhausted(c) ==
    LET t == tasks[c]
        out == Handle(t.op, resources, RequestOf(t.op), t.id, t.yielded)
    IN  /\ t.pc = "iterating"
        /\ DOMAIN resources \subseteq Range(t.yielded)
        /\ tasks' = [tasks EXCEPT ![c] = [t EXCEPT !.pc = "responded",
                                                   !.response = {Seen(out.response)}]]
        /\ UNCHANGED <<resources, tickets, generated, issued, borrow, serial>>
        /\ UNCHANGED <<request, response, registered>>
        /\ UNCHANGED <<avars, svars, cvars>>

\* the caller has sent the response and drops it, and the reference with it
Drop(c) ==
    /\ tasks[c].pc = "responded"
    /\ tasks' = [tasks EXCEPT ![c] = Idle]
    /\ borrow' = [borrow EXCEPT ![StoreOf(tasks[c].op)] = @ \ {c}]
    /\ UNCHANGED <<resources, tickets, generated, issued, serial>>
    /\ UNCHANGED <<request, response, registered>>
    /\ UNCHANGED <<avars, svars, cvars>>

NextShared ==
    \/ \E c \in Callers, op \in SharedOps : Arrive(c, op)
    \/ \E c \in Callers, id \in Uuids \cup TicketUuids \cup {<<>>} : Enter(c, id)
    \/ \E c \in Callers : Run(c)
    \/ \E c \in Callers, key \in IdStrings : Yield(c, key)
    \/ \E c \in Callers : Exhausted(c)
    \/ \E c \in Callers : Drop(c)

InitShared ==
    /\ tasks = [c \in Callers |-> Idle]
    /\ borrow = [s \in Stores |-> {}]
    /\ serial = [s \in Stores |-> <<>>]

Init == InitAuth /\ InitReg /\ InitPerm /\ InitStore /\ InitCatch /\ InitShared

SpecAuth == Init /\ [][NextAuth]_vars

SpecCalls == Init /\ [][NextCalls]_vars

\* the same calls on a runtime that keeps polling a branch whose request has
\* been answered: every pending request is answered or fails, and neither
\* branch is starved
SpecCallsFair == SpecCalls /\ WF_vars(TrustStep) /\ WF_vars(SigStep)

SpecReg == Init /\ [][NextReg]_vars

SpecPerm == Init /\ [][NextPerm]_vars

SpecApi == Init /\ [][NextApi]_vars

SpecStore == Init /\ [][NextStore]_vars

SpecCatch == Init /\ [][NextCatch]_vars

SpecShared == Init /\ [][NextShared]_vars

----------------------------------------------------------------------------
(* Properties of authenticate                                              *)

FetchErrors == {"NoIssuerConfig", "InvalidIssuerConfig", "NoJwks", "InvalidJwks"}

\* the claims of the running call's token
claims == token_str.claims

\* the audience and time conditions of a trusted token, as the specification
\* states them
AudienceHolds == "solid" \in claims.aud /\ claims.azp \in claims.aud
TimesHold ==
    /\ claims.iat <= now
    /\ claims.exp >= now
    /\ \A nbf \in claims.nbf : nbf <= now
PassesChecks == token_str.json /\ AudienceHolds /\ TimesHold

TrustAnswersGood == trust.status \notin FetchErrors
SigAnswersGood ==
    /\ sig.status \notin FetchErrors
    /\ sig.pc = "done" =>
          sig.jwk # {} /\ \A jwk \in sig.jwk : ValidateSignatureWithKey(claims, jwk)

\* C2: a valid token (audience and times hold, iss listed in the WebID
\* document, signature valid against the resolved key) whose fetches all
\* succeed is never rejected, and is accepted once both branches are through,
\* in every interleaving of the two branches.
C2_ValidTokenAccepted ==
    (/\ phase # "idle"
     /\ PassesChecks
     /\ claims.iss \in published.issuers
     /\ TrustAnswersGood
     /\ SigAnswersGood)
    => /\ result \in {"pending", "Ok"}
       /\ (trust.pc = "done" /\ sig.pc = "done") => result = "Ok"
       /\ result = "pending" => phase = "joining"

C2_Witness ==
    /\ phase = "done" /\ result = "Ok"
    /\ claims.exp = now /\ claims.iat = now /\ claims.nbf = {now}

\* C3 as stated: every token with exp < now is rejected with TokenExpired,
\* whatever its other claims are.
C3_Original ==
    (phase = "done" /\ token_str.json /\ claims.exp < now)
    => result = "TokenExpired"

\* C3 amended: every token that passes the audience check and has iat <= now
\* and exp < now is rejected with TokenExpired before any request is made,
\* whatever its nbf, iss, webid, key binding and signature are.
C3_ExpiredAfterAudienceAndIat ==
    (/\ phase # "idle"
     /\ token_str.json
     /\ AudienceHolds
     /\ claims.iat <= now
     /\ claims.exp < now)
    => result = "TokenExpired" /\ phase = "done"

C3_Witness ==
    /\ result = "TokenExpired"
    /\ \E nbf \in claims.nbf : nbf > now
    /\ claims.iss \notin published.issuers

\* C4 as stated: a token that passes the audience and time checks and whose
\* iss is not listed in the WebID document is rejected with
\* IssuerNotAllowed (the document itself being fetched without failure).
C4_Original ==
    (/\ phase = "done"
     /\ PassesChecks
     /\ claims.iss \notin published.issuers
     /\ TrustAnswersGood)
    => result = "IssuerNotAllowed"

\* C4 amended: such a token is never accepted; it is rejected with
\* IssuerNotAllowed as soon as the trust branch has the document, which
\* covers every run in which the signature branch succeeds; when the
\* signature branch fails first, its error is the one returned.
C4_IssuerNotAllowedUnlessSigFailsFirst ==
    (/\ phase # "idle"
     /\ PassesChecks
     /\ claims.iss \notin published.issuers)
    => /\ result # "Ok"
       /\ trust.doc # {} => result = "IssuerNotAllowed"
       /\ (phase = "done" /\ TrustAnswersGood /\ ~IsErr(sig.status))
             => result = "IssuerNotAllowed"
       /\ IsErr(sig.status) => result = sig.status

C4_Witness ==
    /\ result = "IssuerNotAllowed"
    /\ sig.status = "Ok"
    /\ \A jwk \in sig.jwk : ValidateSignatureWithKey(claims, jwk)

\* C5: a call whose token fails the parse, the audience check or the time
\* check issues no request at all; no branch is started for it.
C5_NoFetchBeforeChecks ==
    (phase # "idle" /\ ~PassesChecks)
    => fetched = {} /\ trust.pc = "none" /\ sig.pc = "none" /\ phase = "done"

C5_Witness ==
    /\ phase = "done"
    /\ result = "TokenNotYetValid"
    /\ fetched = {}

\* C6: the join is fail-fast. The call is Ok exactly when both branches are
\* Ok; as soon as a branch has failed the call has returned that branch's
\* error, the other branch not having failed; and once the call has
\* returned, the abandoned branch makes no step and the result stays.
C6_JoinState ==
    phase # "idle" =>
        /\ result = "Ok" <=> (trust.status = "Ok" /\ sig.status = "Ok")
        /\ IsErr(trust.status) => (result = trust.status /\ ~IsErr(sig.status))
        /\ IsErr(sig.status) => (result = sig.status /\ ~IsErr(trust.status))
        /\ result # "pending" <=> phase = "done"

C6_JoinStep ==
    (result # "pending" /\ phase' # "idle")
    => (result' = result /\ trust' = trust /\ sig' = sig)

C6_FailFastJoin == [](C6_JoinState) /\ [][C6_JoinStep]_vars

C6_Witness ==
    /\ phase = "done"
    /\ IsErr(sig.status) /\ result = sig.status
    /\ trust.pc = "json_jwks" /\ trust.status = "pending"

----------------------------------------------------------------------------
(* Properties of the resource registration API                             *)

\* the id the last request names in its path
requested == TrimStartMatches(request.path, "/")

ErrorCodes(resp) == {e.error_code : e \in resp.body.error}

\* C7: round trip. A Read of an id that Create returned, with no Update or
\* Delete of that id since, answers 200 with that id and with exactly the
\* description that was submitted to Create, whatever happened to other ids.
C7_RoundTrip ==
    (/\ request.op = "read"
     /\ request.method = "GET"
     /\ requested \in DOMAIN registered)
    => /\ response.status = 200
       /\ response.body._id = {requested}
       /\ response.body.resource_description = {registered[requested]}

C7_Witness ==
    /\ request.op = "read"
    /\ response.status = 200
    /\ requested \in DOMAIN registered
    /\ registered[requested].resource_scopes = <<"view", "print">>
    /\ \E k \in DOMAIN resources : k # requested /\ resources[k] # resources[requested]

\* C8: a Delete of an id that is not stored answers 404 not_found and leaves
\* the store as it was; a Delete of a stored id answers 204 and removes that
\* id and nothing else.
C8_DeleteStep ==
    (request'.op = "delete" /\ request'.method = "DELETE")
    => LET id == TrimStartMatches(request'.path, "/")
       IN  IF id \in DOMAIN resources
           THEN /\ response'.status = 204
                /\ DOMAIN resources' = DOMAIN resources \ {id}
                /\ \A k \in DOMAIN resources' : resources'[k] = resources[k]
           ELSE /\ response'.status = 404
                /\ ErrorCodes(response') = {"not_found"}
                /\ resources' = resources

C8_Delete == [][C8_DeleteStep]_vars

C8_Witness ==
    /\ request.op = "delete"
    /\ request.method = "DELETE"
    /\ response.status = 404
    /\ requested \in generated
    /\ resources # <<>>

\* C9: List on the collection root answers 200 with every key of the store
\* exactly once and nothing else, after any sequence of operations.
C9_ListIsStore ==
    (request.op = "list" /\ request.method = "GET" /\ request.path = <<"/">>)
    => /\ response.status = 200
       /\ \E keys \in response.body.keys :
             /\ Len(keys) = Cardinality(DOMAIN resources)
             /\ {keys[i] : i \in 1..Len(keys)} = DOMAIN resources
       /\ generated \cap DOMAIN registered \subseteq DOMAIN resources

C9_Witness ==
    /\ request.op = "list"
    /\ response.status = 200
    /\ generated = Uuids
    /\ \E keys \in response.body.keys :
          Len(keys) = 3 /\ {keys[i] : i \in 1..Len(keys)} = Uuids \cup {<<"x">>}

\* C10: a Read of an id that is not stored answers 404 with the error code
\* not_found; a successful Delete leaves its id not stored, so that every Read
\* of it is answered so until the id is stored again.
C10_ReadAbsent ==
    (request.op = "read" /\ request.method = "GET" /\ requested \notin DOMAIN resources)
    => response.status = 404 /\ ErrorCodes(response) = {"not_found"}

C10_AfterDelete ==
    (request'.op = "delete" /\ response'.status = 204)
    => TrimStartMatches(request'.path, "/") \notin DOMAIN resources'

C10_ReadNotFound == [](C10_ReadAbsent) /\ [][C10_AfterDelete]_vars

C10_Witness ==
    /\ request.op = "read"
    /\ response.status = 404
    /\ ErrorCodes(response) = {"not_found"}
    /\ requested \in generated


----------------------------------------------------------------------------
(* Properties of the permission endpoint and of the registration API       *)

\* the last request was a permission request that succeeded
TicketIssued == request.op = "issue_ticket" /\ response.status = 201

\* the tickets returned before the last one
EarlierTickets == Range(SubSeq(issued, 1, Len(issued) - 1))

\* C11, first part: a successful permission request returns one non-empty
\* ticket that no earlier request returned and that is none of the resource
\* ids of the request, and the store maps the ticket to the request's
\* permissions.
C11_FreshTicket ==
    TicketIssued =>
        \E t \in response.body.ticket :
            /\ response.body.ticket = {t}
            /\ t # <<>>
            /\ t \notin EarlierTickets
            /\ t \notin ResourceIds(request.body)
            /\ t \in DOMAIN tickets
            /\ tickets[t] = request.body

\* C11, second part: when a successful permission request is followed by a
\* successful request with the same permissions, the two tickets differ and
\* the store maps both to that permission sequence.
C11_SameRequestTwice ==
    (TicketIssued /\ TicketIssued' /\ request'.body = request.body /\ issued' # issued)
        => \E t1 \in response.body.ticket, t2 \in response'.body.ticket :
              /\ t1 # t2
              /\ {t1, t2} \subseteq DOMAIN tickets'
              /\ tickets'[t1] = request.body
              /\ tickets'[t2] = request.body

\* C11: every successful issue_ticket call returns a non-empty ticket that
\* differs from every ticket issued before and from every resource_id of the
\* request; two sequential identical requests yield two distinct tickets,
\* each mapped by the ticket store to the same permission sequence.
C11_DistinctTickets == []C11_FreshTicket /\ [][C11_SameRequestTwice]_vars

\* two identical non-empty requests have been answered with two tickets
C11_Witness ==
    /\ TicketIssued
    /\ Len(issued) = 2
    /\ issued[1] # issued[2]
    /\ request.body # <<>>
    /\ tickets[issued[1]] = request.body
    /\ tickets[issued[2]] = request.body

\* the method each operation of the protection API accepts
OwnMethod(op) ==
    CASE op = "create" -> "POST"
      [] op = "read" -> "GET"
      [] op = "update" -> "PUT"
      [] op = "delete" -> "DELETE"
      [] op = "list" -> "GET"
      [] op = "issue_ticket" -> "POST"

\* C12: an operation of the protection API invoked with a method other than
\* its own answers with the unsupported_method_type error and status 405.
C12_WrongMethodIs405 ==
    (request.op # "none" /\ request.method # OwnMethod(request.op))
        => /\ ErrorCodes(response) = {"unsupported_method_type"}
           /\ response.status = 405

\* C13: every key of the resource store is an id the server generated in a
\* Create call; no caller-chosen id gets into the store.
C13_KeysAreServerGenerated == DOMAIN resources \subseteq generated

\* C14, the step: a successful Create answers 201 with one id that was not a
\* key of the store, stores the submitted description under it, and leaves
\* every other entry as it was.
C14_CreateStep ==
    (request'.op = "create" /\ response'.status = 201)
        => \E id \in response'.body._id :
              /\ response'.body._id = {id}
              /\ id \notin DOMAIN resources
              /\ DOMAIN resources' = DOMAIN resources \cup {id}
              /\ resources'[id] = request'.body
              /\ \A k \in DOMAIN resources : resources'[k] = resources[k]
              /\ id \notin generated
              /\ generated' = generated \cup {id}

\* C14: Create stores the submitted description under an id that was not a
\* key of the store, returns 201 with that id and leaves every other entry
\* unchanged; it never overwrites a resource, so N Creates produce N distinct
\* ids and N new entries.
C14_CreateAddsOneEntry == [][C14_CreateStep]_vars

\* the second Create has added its entry next to the first one
C14_Witness ==
    /\ request.op = "create"
    /\ response.status = 201
    /\ Cardinality(generated) = 2
    /\ generated \subseteq DOMAIN resources
    /\ response.body._id \subseteq generated

\* the last request was an Update that succeeded
Updated == request.op = "update" /\ response.status = 200

\* C15, the step: an Update of a stored id answers 200 with that id and
\* changes the store in that one entry only, which becomes the submitted
\* description.
C15_UpdateStep ==
    LET id == TrimStartMatches(request'.path, "/")
    IN  (request'.op = "update" /\ request'.method = "PUT" /\ id \in DOMAIN resources)
            => /\ response'.status = 200
               /\ response'.body._id = {id}
               /\ resources' = [resources EXCEPT ![id] = request'.body]

\* C15, the read: after an Update, a Read of the same path answers with
\* exactly the submitted description.
C15_ReadBack ==
    Updated =>
        LET out == read_resource_registration(resources,
                       [method |-> "GET", path |-> request.path, body |-> None])
        IN  /\ out.response.status = 200
            /\ out.response.body.resource_description = {request.body}

\* C15: Update(id, d) on a stored id replaces the description wholesale:
\* Read(id) then returns exactly d, no field of the earlier description
\* survives, every other entry is unchanged and the response is 200 with id.
C15_UpdateReplaces == []C15_ReadBack /\ [][C15_UpdateStep]_vars

\* an id that Create generated has been updated, next to another entry, with
\* a description that has none of the optional fields
C15_Witness ==
    /\ Updated
    /\ requested \in generated
    /\ Cardinality(DOMAIN resources) = 2
    /\ resources[requested] = request.body
    /\ request.body.description = None

\* C16, the step: an Update of an id that is not a key of the store answers
\* 200 with that id and adds the entry id -> d, all other entries unchanged.
C16_UpdateAbsentStep ==
    LET id == TrimStartMatches(request'.path, "/")
    IN  (request'.op = "update" /\ request'.method = "PUT" /\ id \notin DOMAIN resources)
            => /\ response'.status = 200
               /\ response'.body._id = {id}
               /\ response'.body.error = {}
               /\ DOMAIN resources' = DOMAIN resources \cup {id}
               /\ resources'[id] = request'.body
               /\ \A k \in DOMAIN resources : resources'[k] = resources[k]

\* C16, the answers: an Update never answers not_found, and after an Update
\* the store holds the submitted description under the id and every List
\* answer contains the id.
C16_NeverNotFound ==
    /\ request.op = "update" => "not_found" \notin ErrorCodes(response)
    /\ Updated => Get(resources, requested) = {request.body}
    /\ Updated =>
          \A keys \in List(resources) :
              LET out == list_resource_registration(resources,
                             [method |-> "GET", path |-> <<"/">>, body |-> None], keys)
              IN  \E ks \in out.response.body.keys : requested \in Range(ks)

C17_CreatedHasLocation ==
    (request.op = "create" /\ request.method = "POST")
        => /\ response.status = 201
           /\ \E id \in response.body._id :
                 <<"Location", <<"/">> \o id>> \in response.headers

\* C18: issue_ticket stores no permission for an unregistered resource: the
\* resource ids of a ticket just issued are keys of the resource store.
C18_OnlyRegisteredResources ==
    TicketIssued => ResourceIds(request.body) \subseteq DOMAIN resources

\* C19, the step: a successful permission request with at least one
\* permission returns one ticket and adds one entry, ticket -> the requested
\* permission sequence, to the ticket store; the earlier entries stay.
C19_TicketStep ==
    (TicketIssued' /\ Len(request'.body) >= 1)
        => \E t \in response'.body.ticket :
              /\ response'.body.ticket = {t}
              /\ t \notin DOMAIN tickets
              /\ DOMAIN tickets' = DOMAIN tickets \cup {t}
              /\ tickets'[t] = request'.body
              /\ \A k \in DOMAIN tickets : tickets'[k] = tickets[k]

\* C19: a successful issue_ticket call with k >= 1 permissions returns
\* exactly one ticket and adds exactly one entry to the ticket store, mapping
\* the ticket to the requested permission sequence verbatim (same elements,
\* same order, nothing removed); all earlier entries are unchanged.
C19_OneTicketVerbatim == [][C19_TicketStep]_vars

\* a request of two different permissions got one ticket, next to an
\* earlier ticket that still holds its own permissions
C19_Witness ==
    /\ TicketIssued
    /\ Len(request.body) = 2
    /\ request.body[1] # request.body[2]
    /\ Len(issued) = 2
    /\ tickets[issued[2]] = request.body
    /\ tickets[issued[1]] # request.body


----------------------------------------------------------------------------
(* Properties of the key-value store                                       *)

\* C21, the reads: a get of a key returns the value of the last set of that
\* key, no del of the key having come since, and nothing otherwise.
C21_GetSeesLastSet ==
    call.op = "get" =>
        call.ret = (IF call.key \in DOMAIN written THEN {written[call.key]} ELSE {})

\* C21, the writes: set puts the value under the key, returns the key and
\* leaves every other entry; del removes the key, returns the value it had
\* (nothing when absent) and leaves every other entry; get and list change
\* nothing.
C21_CallStep ==
    LET k == call'.key
    IN  /\ call'.op = "set" =>
              /\ call'.ret = {k}
              /\ DOMAIN hashmap' = DOMAIN hashmap \cup {k}
              /\ call'.value = {hashmap'[k]}
              /\ \A j \in DOMAIN hashmap \ {k} : hashmap'[j] = hashmap[j]
        /\ call'.op = "del" =>
              /\ call'.ret = (IF k \in DOMAIN hashmap THEN {hashmap[k]} ELSE {})
              /\ DOMAIN hashmap' = DOMAIN hashmap \ {k}
              /\ \A j \in DOMAIN hashmap' : hashmap'[j] = hashmap[j]
        /\ call'.op \in {"get", "list"} => hashmap' = hashmap

\* C21: the key-value store is linearizable per key: a get(k) that follows
\* set(k, v) with no set or del of k in between returns v; set on an existing
\* key replaces its value and returns k; del(k) removes k and returns its
\* former value, or nothing when k is absent; no operation on k changes the
\* entry of another key.
C21_PerKeyLinearizable == []C21_GetSeesLastSet /\ [][C21_CallStep]_vars

\* a get returns the second value set for its key, next to another key that
\* still has the first value
C21_Witness ==
    /\ call.op = "get"
    /\ call.ret = {"v2"}
    /\ \E j \in DOMAIN hashmap : j # call.key /\ hashmap[j] = "v1"
    /\ Cardinality(DOMAIN hashmap) = 2

----------------------------------------------------------------------------
(* Further properties of authenticate                                      *)

\* C22: the issuer metadata is requested at the issuer without its trailing
\* slash followed by "/.well-known/openid-configuration".
C22_MetadataUrl ==
    (phase # "idle" /\ PassesChecks)
        => [by |-> "get_issuer_jwks",
            uri |-> TrimEndMatches(claims.iss, "/")
                        \o <<"/", ".well-known/openid-configuration">>] \in fetched

\* C23, between calls: nothing of a finished call is left.
C23_NothingKept ==
    phase = "idle" =>
        /\ token_str = Malformed
        /\ trust = IdleTrust
        /\ sig = IdleSig
        /\ fetched = {}
        /\ result = "pending"

\* C23, in a call: a token that passes the checks has its WebID document and
\* its issuer metadata requested in this call, also when an earlier call
\* accepted it, and is accepted only on the document and key of this call.
C23_FetchedAnew ==
    (phase # "idle" /\ PassesChecks)
        => /\ WebidRequest(claims) \in fetched
           /\ IssuerRequest(claims) \in fetched
           /\ result = "Ok" => (trust.doc = {published} /\ sig.jwk # {})

\* C23, the later call: a token an earlier call accepted is not accepted
\* when the WebID document of this call does not list its issuer, and is
\* rejected with IssuerNotAllowed when nothing else has changed (it still
\* passes the checks, no request fails, the signature branch does not fail).
C23_RejectedLater ==
    (/\ token_str \in earlier
     /\ PassesChecks
     /\ claims.iss \notin published.issuers)
        => /\ result # "Ok"
           /\ (phase = "done" /\ TrustAnswersGood /\ ~IsErr(sig.status))
                 => result = "IssuerNotAllowed"

\* C23, the stores: no step of authenticate writes to a store.
C23_NoWrite == resources' = resources /\ tickets' = tickets /\ hashmap' = hashmap

C27_BadAudienceFirst ==
    (phase # "idle" /\ token_str.json /\ ~AudienceHolds)
        => result = "InvalidAudience" /\ phase = "done"

\* a token with "solid" but without its azp in aud, and expired as well
C27_Witness ==
    /\ result = "InvalidAudience"
    /\ "solid" \in claims.aud
    /\ claims.azp \notin claims.aud
    /\ claims.exp < now

TimeErrors == {"TokenIssuedInFuture", "TokenExpired", "TokenNotYetValid"}

\* C28: the time check reports one error in a fixed order and accepts the
\* boundary values: iat > now gives TokenIssuedInFuture whatever exp is;
\* otherwise exp < now gives TokenExpired whatever nbf is; otherwise an nbf
\* that is present and > now gives TokenNotYetValid; otherwise (iat <= now <=
\* exp, nbf absent or <= now) the time check does not fail.
C28_TimeOrder ==
    (phase # "idle" /\ token_str.json /\ AudienceHolds)
        => IF claims.iat > now THEN result = "TokenIssuedInFuture"
           ELSE IF claims.exp < now THEN result = "TokenExpired"
           ELSE IF \E nbf \in claims.nbf : nbf > now THEN result = "TokenNotYetValid"
           ELSE result \notin TimeErrors

\* a token issued in the future and expired
C28_Witness ==
    /\ result = "TokenIssuedInFuture"
    /\ claims.exp < now
    /\ claims.iat > now

\* the key set requests the signature branch has made
SigJwksFetches == {u \in JwksUris : JwksRequest("get_issuer_jwks", u) \in fetched}

\* C29, the state: the signature branch has requested a key set only from
\* the jwks_uri of the metadata it has parsed, and has requested none when
\* the metadata could not be fetched or parsed.
C29_JwksAfterMetadata ==
    phase # "idle" =>
        /\ SigJwksFetches = sig.jwks_uri
        /\ sig.jwks_uri # {} => sig.pc \in {"send_jwks", "json_jwks", "done"}
        /\ sig.status \in {"NoIssuerConfig", "InvalidIssuerConfig"} => SigJwksFetches = {}
        /\ sig.status \in {"NoJwks", "InvalidJwks"} => SigJwksFetches # {}

\* C29, the steps: each failure of the branch gets its own error, and the
\* key set is requested in the step that parses the metadata.
C29_FailureStep ==
    /\ SigSendCfg(FALSE) => (sig'.status = "NoIssuerConfig" /\ fetched' = fetched)
    /\ SigJsonCfg({}) => (sig'.status = "InvalidIssuerConfig" /\ fetched' = fetched)
    /\ \A u \in JwksUris :
          SigJsonCfg({u}) =>
              fetched' = fetched \cup {JwksRequest("get_issuer_jwks", u)}
    /\ SigSendJwks(FALSE) => sig'.status = "NoJwks"
    /\ SigJsonJwks({}) => sig'.status = "InvalidJwks"

\* C29: in the signature branch the JWKS is fetched only after the issuer
\* metadata was fetched and parsed, and from the jwks_uri it returned; a
\* metadata fetch failure ends the branch with NoIssuerConfig, a metadata
\* parse failure with InvalidIssuerConfig, a JWKS fetch failure with NoJwks
\* and a JWKS parse failure with InvalidJwks, and in the first two cases no
\* JWKS request is made.
C29_SignatureBranchOrder == []C29_JwksAfterMetadata /\ [][C29_FailureStep]_vars

\* the metadata of the issuer did not parse: no key set was requested by the
\* signature branch, while the other branch has requested its own
C29_Witness ==
    /\ phase = "done"
    /\ sig.status = "InvalidIssuerConfig"
    /\ SigJwksFetches = {}
    /\ \E u \in JwksUris : JwksRequest("get_webid_doc", u) \in fetched

\* C30, the step that gets the key set: the signature is validated against
\* a key of the set whose key id is the token's key binding and against no
\* other; without such a key the branch fails with NoMatchingJwk and no key
\* is tried; with such a key the branch is Ok when the key validates the
\* signature and fails otherwise.
C30_KeyStep ==
    Running(sig, "json_jwks") =>
        \A keys \in JWKSets :
            SigJsonJwks({keys}) =>
                LET matching == {i \in 1..Len(keys) : keys[i].key_id = claims.cnf.jkt}
                IN  IF matching = {}
                    THEN sig'.status = "NoMatchingJwk" /\ sig'.jwk = {}
                    ELSE \E i \in matching :
                            /\ sig'.jwk = {keys[i]}
                            /\ IF ValidateSignatureWithKey(claims, keys[i])
                               THEN sig'.status = "Ok"
                               ELSE IsErr(sig'.status) /\ sig'.status # "NoMatchingJwk"

\* C30, the state: the key the branch has validated against has the token's
\* key binding as its id, and a branch that found no key has tried none.
C30_MatchedKeyOnly ==
    /\ \A jwk \in sig.jwk : jwk.key_id = claims.cnf.jkt
    /\ sig.status = "NoMatchingJwk" => sig.jwk = {}
    /\ sig.status = "Ok" => sig.jwk # {}

----------------------------------------------------------------------------
(* Properties of the handlers' common steps                                *)

\* C24: when the building of a response has failed, catch_errors answers
\* 500 with the error code internal_server_error and the fixed description;
\* the message of the failure is nowhere in the response.
C24_DefaultOnFailure ==
    \A resp \in caught :
        ~built.ok =>
            /\ resp.status = 500
            /\ ErrorCodes(resp) = {"internal_server_error"}
            /\ \A e \in resp.body.error :
                  /\ e.error_description =
                        {"Something went wrong. Could not create a more specific error."}
                  /\ e.error_description \cap built.error = {}
                  /\ e.error_code \notin built.error
            /\ resp.body._id = {} /\ resp.body.resource_description = {}
            /\ resp.body.keys = {} /\ resp.body.ticket = {}

\* a failed build has been answered
C24_Witness ==
    /\ built = HttpErr("invalid status code")
    /\ caught # {}

\* C25, the step: an operation called with a method other than its own
\* answers unsupported_method_type and changes neither store; no id and no
\* ticket is generated.
C25_WrongMethodStep ==
    (request'.op # "none" /\ request'.method # OwnMethod(request'.op))
        => /\ ErrorCodes(response') = {"unsupported_method_type"}
           /\ DOMAIN resources' = DOMAIN resources
           /\ \A k \in DOMAIN resources : resources'[k] = resources[k]
           /\ DOMAIN tickets' = DOMAIN tickets
           /\ \A t \in DOMAIN tickets : tickets'[t] = tickets[t]
           /\ generated' = generated
           /\ issued' = issued

\* C25: every registry and ticket operation checks the method first: a call
\* with the wrong method returns UnsupportedMethod and leaves the resource
\* store and the ticket store as they were, whatever the path and body.
C25_MethodCheckedFirst == [][C25_WrongMethodStep]_vars

\* a permission request with a wrong method and a permission in its body
\* was refused while both stores hold entries
C25_Witness ==
    /\ request.op = "issue_ticket"
    /\ request.method = "DELETE"
    /\ request.body # <<>>
    /\ ErrorCodes(response) = {"unsupported_method_type"}
    /\ resources # <<>>
    /\ tickets # <<>>

\* C26: List with GET on a path other than "/" answers 400 invalid_request,
\* the same whatever the store holds and without any key of it; the method
\* is checked first, so that List with another method on such a path
\* answers unsupported_method_type.
C26_ListPath ==
    (request.op = "list" /\ request.path # <<"/">>)
        => IF request.method # "GET"
           THEN ErrorCodes(response) = {"unsupported_method_type"}
           ELSE /\ response.status = 400
                /\ ErrorCodes(response) = {"invalid_request"}
                /\ response.body.keys = {}
                /\ \A keys \in List(resources) :
                      list_resource_registration(resources,
                          [method |-> request.method, path |-> request.path,
                           body |-> None], keys).response = response

\* List with GET on the path of a stored id was refused
C26_Witness ==
    /\ request.op = "list"
    /\ request.method = "GET"
    /\ response.status = 400
    /\ requested \in DOMAIN resources

----------------------------------------------------------------------------
(* Properties of the two branches of authenticate                          *)

\* the requests the trust branch has made
TrustFetches == {r \in fetched : r.by = "get_webid_doc"}

\* C31: the trust branch fetches exactly one document, the one at the
\* token's webid, whose issuers list it reads; a failure to fetch or to
\* parse that document is the branch's error, and the branch makes no
\* further request (none to the issuer, none to a key set).
C31_TrustFetchesOneDocument ==
    (phase # "idle" /\ PassesChecks)
    => /\ TrustFetches = {WebidRequest(claims)}
       /\ trust.doc \subseteq {published}
       /\ trust.status \in {"pending", "Ok", "IssuerNotAllowed",
                            "NoIssuerConfig", "InvalidIssuerConfig"}

\* C32: when both branches would fail, authenticate returns the error of the
\* branch that fails first. While neither branch has failed, either of them
\* can be the next to fail, and the call then returns that branch's error;
\* the error of a call that started its branches is the error of the one
\* branch that has failed, the other branch not having failed before it.
C32_EitherMayFailFirst ==
    (phase = "joining" /\ trust.status = "pending" /\ sig.status = "pending")
    => /\ ENABLED (TrustStep /\ IsErr(trust'.status) /\ result' = trust'.status
                             /\ phase' = "done")
       /\ ENABLED (SigStep /\ IsErr(sig'.status) /\ result' = sig'.status
                           /\ phase' = "done")

C32_FirstFailureStep ==
    (result = "pending" /\ IsErr(result'))
    => \/ phase = "idle" /\ fetched' = {}
       \/ /\ phase = "joining"
          /\ \/ /\ ~IsErr(trust.status) /\ trust'.status = result'
                /\ sig' = sig /\ ~IsErr(sig.status)
             \/ /\ ~IsErr(sig.status) /\ sig'.status = result'
                /\ trust' = trust /\ ~IsErr(trust.status)

C32_FirstFailureWins ==
    []C32_EitherMayFailFirst /\ [][C32_FirstFailureStep]_vars

\* the signature branch fails first in a call whose trust branch, still
\* waiting for its last answer, would fail as well: the issuer is not listed
C32_Witness ==
    /\ phase = "done"
    /\ token_str.json
    /\ claims.iss \notin published.issuers
    /\ sig.status = "NoMatchingJwk" /\ result = "NoMatchingJwk"
    /\ trust.status = "pending" /\ trust.pc = "json_jwks"

\* what a call can return: Ok or one of the errors of oidc.rs
AuthResults ==
    {"Ok", "InvalidToken", "InvalidAudience", "TokenIssuedInFuture",
     "TokenExpired", "TokenNotYetValid", "IssuerNotAllowed", "NoMatchingJwk",
     "ValidationError"} \cup FetchErrors

\* C33: when every request is answered or fails and both branches are
\* polled fairly, every call of authenticate returns, with Ok or with one of
\* its errors: a call that failed a check has returned at once, and a call
\* waiting for its branches leads to a returned call, also when one branch
\* has failed and the other is left unfinished.
C33_ReturnedOrJoining ==
    /\ phase \in {"idle", "joining", "done"}
    /\ phase = "done" <=> result \in AuthResults
    /\ phase # "done" => result = "pending"

C33_EventuallyReturns ==
    /\ []C33_ReturnedOrJoining
    /\ (phase = "joining") ~> (phase = "done" /\ result \in AuthResults)

\* a call has returned the trust branch's error while the request of the
\* signature branch for the key set is still unanswered
C33_Witness ==
    /\ phase = "done"
    /\ IsErr(trust.status) /\ result = trust.status
    /\ sig.status = "pending" /\ sig.pc = "send_jwks"

----------------------------------------------------------------------------
(* Properties of the two stores                                            *)

\* C34: an issued ticket stays in the ticket store with its permissions
\* unchanged: no step of the protection API (Create, Read, Update, Delete,
\* List, a further issue_ticket) removes it, replaces it or alters it.
C34_TicketStep ==
    \A t \in DOMAIN tickets :
        /\ t \in DOMAIN tickets'
        /\ Len(tickets'[t]) = Len(tickets[t])
        /\ \A i \in DOMAIN tickets[t] : tickets'[t][i] = tickets[t][i]

C34_TicketsPersist == [][C34_TicketStep]_vars

\* a second ticket has been issued and the first is still stored
C34_Witness ==
    /\ TicketIssued
    /\ Len(issued) = 2
    /\ issued[1] \in DOMAIN tickets /\ issued[2] \in DOMAIN tickets
    /\ issued[1] # issued[2]
    /\ tickets[issued[1]] # <<>>

C36_Original ==
    \A id \in DOMAIN resources : resources[id].resource_scopes # <<>>

\* C36 amended: Create and Update store the description of the request as it
\* is, without looking at its scopes: a POST to Create and a PUT to Update
\* succeed whatever resource_scopes is, and the description stored under the
\* returned id has the resource_scopes of the request, empty or not.
C36_ScopesStoredAsSent ==
    /\ \A id \in DOMAIN resources : resources[id] \in ResourceDescription
    /\ (request.op = "create" /\ request.method = "POST")
          => /\ response.status = 201
             /\ \E id \in response.body._id :
                   /\ id \in DOMAIN resources
                   /\ resources[id].resource_scopes = request.body.resource_scopes
    /\ (request.op = "update" /\ request.method = "PUT")
          => /\ response.status = 200
             /\ requested \in DOMAIN resources
             /\ resources[requested].resource_scopes = request.body.resource_scopes

\* an Update has replaced a description that had scopes by one without any
C36_Witness ==
    /\ Updated
    /\ requested \in generated
    /\ request.body.resource_scopes = <<>>
    /\ resources[requested].resource_scopes = <<>>
    /\ \E id \in DOMAIN resources : resources[id].resource_scopes # <<>>

\* both stores are after the step what they were before it
StoresKept ==
    /\ DOMAIN resources' = DOMAIN resources
    /\ \A k \in DOMAIN resources : resources'[k] = resources[k]
    /\ DOMAIN tickets' = DOMAIN tickets
    /\ \A t \in DOMAIN tickets : tickets'[t] = tickets[t]

\* C37: Read and List never change the registry, and an operation that
\* answers with an error (not_found, invalid_request,
\* unsupported_method_type) leaves the resource store and the ticket store
\* exactly as they were before the call.
C37_FrameStep ==
    /\ request'.op \in {"read", "list"} => StoresKept
    /\ (/\ request'.op # "none"
        /\ ErrorCodes(response') \cap
               {RESOURCE_NOT_FOUND.error_code, INVALID_REQUEST.error_code,
                UNSUPPORTED_METHOD_TYPE.error_code} # {})
          => StoresKept

C37_ReadsAndErrorsKeepStores == [][C37_FrameStep]_vars

\* a Delete of an id that is not registered was refused while both stores
\* hold entries
C37_Witness ==
    /\ request.op = "delete" /\ request.method = "DELETE"
    /\ ErrorCodes(response) = {"not_found"}
    /\ DOMAIN resources # {}
    /\ DOMAIN tickets # {}

\* C38: the registry and the ticket store are independent. Create, Update
\* and Delete never change the ticket store and issue_ticket never changes
\* the registry; in particular a Delete leaves the tickets that name the
\* deleted resource in place and unchanged, so that a ticket can name a
\* resource id that is no longer registered.
C38_IndependentStep ==
    /\ request'.op \in {"create", "update", "delete"}
          => /\ DOMAIN tickets' = DOMAIN tickets
             /\ \A t \in DOMAIN tickets : tickets'[t] = tickets[t]
             /\ issued' = issued
    /\ request'.op = "issue_ticket"
          => /\ DOMAIN resources' = DOMAIN resources
             /\ \A k \in DOMAIN resources : resources'[k] = resources[k]
             /\ generated' = generated

C38_StoresIndependent == [][C38_IndependentStep]_vars

\* a resource was deleted and a ticket that names it is still stored
C38_Witness ==
    /\ request.op = "delete" /\ response.status = 204
    /\ requested \notin DOMAIN resources
    /\ \E t \in DOMAIN tickets : requested \in ResourceIds(tickets[t])

----------------------------------------------------------------------------
(* Properties of the handlers under several callers                        *)

\* the callers that are inside a handler of the store
Inside(s) ==
    {c \in Callers : tasks[c].pc \in {"running", "iterating"} /\ StoreOf(tasks[c].op) = s}

SameStore(a, b) ==
    /\ DOMAIN a = DOMAIN b
    /\ \A k \in DOMAIN a :
          /\ Len(a[k]) = Len(b[k])
          /\ \A i \in DOMAIN a[k] : a[k][i] = b[k][i]

SameResources(a, b) ==
    /\ DOMAIN a = DOMAIN b
    /\ \A k \in DOMAIN a : a[k] = b[k]

====
